---- MODULE Spec2Model ----
(***************************************************************************)
(* The file embedders of the repository: scripts/bin2incl.py (array mode), *)
(* scripts/txt2incl.py (string mode) and util/txt2incl.py (the older       *)
(* string-mode script), as one state machine.  A run of a script is a      *)
(* process that parses its arguments, reads the input file (byte by byte   *)
(* or line by line), assembles the generated text and writes it.           *)
(*                                                                         *)
(* A file is a sequence of bytes (0..255) and a text is the sequence of    *)
(* its character codes, so that formatting (hex, decimal, escaping) and    *)
(* parsing are computed on characters.  Input texts are ASCII without      *)
(* carriage returns, for which text-mode reading is the identity on bytes. *)
(***************************************************************************)
EXTENDS Integers, Sequences, FiniteSets, TLC

VARIABLES
    tool,             \* which script runs
    interp,           \* the interpreter that runs the script
    argv,             \* sys.argv[1:], a sequence of paths
    fs,               \* file system: path -> content
    exists,           \* the paths that name a file
    pc,               \* position of the process
    name,             \* name (bin2incl, txt2incl), fileName (util/txt2incl)
    include_builder,  \* list of text pieces (bin2incl, txt2incl)
    header,           \* util/txt2incl: the text built so far
    hex_written,      \* bin2incl: entries emitted
    byte,             \* bin2incl: last f.read(1), <<>> at end of file
    f,                \* number of bytes of the input consumed so far
    line,             \* string mode: the line last read
    c_line,           \* string mode: c_line (txt2incl), cstr (util/txt2incl)
    exit_status,      \* -1 while the process runs
    stdout,           \* text printed on standard output
    stderr,           \* kind of diagnostic on standard error
    run,              \* number of the current run (1, 2, ...)
    orig,             \* fs when the current run started
    orig_exists,      \* exists when the current run started
    opened,           \* paths opened by the current run
    history           \* per completed run: input read, output written

vars == <<tool, interp, argv, fs, exists, pc, name, include_builder, header,
          hex_written, byte, f, line, c_line, exit_status, stdout, stderr,
          run, orig, orig_exists, opened, history>>

(***************************************************************************)
(* Characters.                                                             *)
(***************************************************************************)
\* The printable ASCII characters, codes 32 .. 126, in order (code 96, the
\* grave accent, cannot be written in a string and is given by its name).
Printable ==
    <<" ", "!", "\"", "#", "$", "%", "&", "'", "(", ")", "*", "+", ",", "-",
      ".", "/", "0", "1", "2", "3", "4", "5", "6", "7", "8", "9", ":", ";",
      "<", "=", ">", "?", "@", "A", "B", "C", "D", "E", "F", "G", "H", "I",
      "J", "K", "L", "M", "N", "O", "P", "Q", "R", "S", "T", "U", "V", "W",
      "X", "Y", "Z", "[", "\\", "]", "^", "_", "grave", "a", "b", "c", "d", "e",
      "f", "g", "h", "i", "j", "k", "l", "m", "n", "o", "p", "q", "r", "s",
      "t", "u", "v", "w", "x", "y", "z", "{", "|", "}", "~">>

Ord(c) == 31 + (CHOOSE i \in DOMAIN Printable : Printable[i] = c)

\* The text of a literal written as a tuple of one-character strings.
S(t) == [i \in 1..Len(t) |-> Ord(t[i])]

NL == 10
Dot == Ord(".")
Underscore == Ord("_")
Slash == Ord("/")
Quote == Ord("\"")
Backslash == Ord("\\")
Space == Ord(" ")
Zero == Ord("0")
LowerX == Ord("x")
LowerN == Ord("n")
Comma == Ord(",")
Semicolon == Ord(";")
LeftBrace == Ord("{")
RightBrace == Ord("}")

\* str.isspace() on ASCII: \t \n \v \f \r, the separators 28..31, space.
Whitespace == (9..13) \cup (28..32)

(***************************************************************************)
(* Library functions the scripts call, by what they do.                    *)
(***************************************************************************)
\* "".join(pieces[lo..hi]).
RECURSIVE JoinRange(_, _, _)
JoinRange(pieces, lo, hi) ==
    IF lo > hi THEN <<>>
    ELSE IF lo = hi THEN pieces[lo]
    ELSE LET mid == (lo + hi) \div 2
         IN  JoinRange(pieces, lo, mid) \o JoinRange(pieces, mid + 1, hi)

Join(pieces) == JoinRange(pieces, 1, Len(pieces))

\* sep.join(pieces).
RECURSIVE JoinWithRange(_, _, _, _)
JoinWithRange(sep, pieces, lo, hi) ==
    IF lo > hi THEN <<>>
    ELSE IF lo = hi THEN pieces[lo]
    ELSE LET mid == (lo + hi) \div 2
         IN  JoinWithRange(sep, pieces, lo, mid) \o sep
                 \o JoinWithRange(sep, pieces, mid + 1, hi)

JoinWith(sep, pieces) == JoinWithRange(sep, pieces, 1, Len(pieces))

\* s.replace(c, r) for a one-character c.
RECURSIVE Replace(_, _, _)
Replace(s, c, r) ==
    IF s = <<>> THEN <<>>
    ELSE (IF Head(s) = c THEN r ELSE <<Head(s)>>) \o Replace(Tail(s), c, r)

\* Position of the last "/" of a path, 0 when it has none.
LastSlash(p) ==
    IF \E i \in DOMAIN p : p[i] = Slash
    THEN CHOOSE i \in DOMAIN p :
             p[i] = Slash /\ \A j \in DOMAIN p : j > i => p[j] # Slash
    ELSE 0

\* os.path.basename(p); also the last element of p.split("/").
basename(p) == SubSeq(p, LastSlash(p) + 1, Len(p))

\* "{}".format(n) for an integer n >= 0: its decimal digits.
RECURSIVE Decimal(_)
Decimal(n) ==
    IF n < 10 THEN <<48 + n>> ELSE Decimal(n \div 10) \o <<48 + (n % 10)>>

\* One digit of bytes.hex(): 0-9, a-f.
HexDigit(d) == IF d < 10 THEN 48 + d ELSE 87 + d

\* b.hex() for a single byte b: two lowercase hex digits.
hex(b) == <<HexDigit(b \div 16), HexDigit(b % 16)>>

\* Faulty variant of strip: only the trailing
\* whitespace is removed (rstrip).
strip_trailing(s) ==
    IF \A i \in DOMAIN s : s[i] \in Whitespace THEN <<>>
    ELSE LET hi == CHOOSE i \in DOMAIN s :
                       s[i] \notin Whitespace
                       /\ \A j \in (i + 1)..Len(s) : s[j] \in Whitespace
         IN  SubSeq(s, 1, hi)

\* s.strip(): leading and trailing whitespace removed.
strip(s) ==
    IF \A i \in DOMAIN s : s[i] \in Whitespace THEN <<>>
    ELSE LET lo == CHOOSE i \in DOMAIN s :
                       s[i] \notin Whitespace
                       /\ \A j \in 1..(i - 1) : s[j] \in Whitespace
             hi == CHOOSE i \in DOMAIN s :
                       s[i] \notin Whitespace
                       /\ \A j \in (i + 1)..Len(s) : s[j] \in Whitespace
         IN  SubSeq(s, lo, hi)

\* re.sub("//.*", "", s): "." does not match a newline, and a line holds at
\* most one newline, its last character, so the one match runs from the
\* first "//" to the newline (or to the end).
re_sub_comment(s) ==
    LET starts == {i \in 1..(Len(s) - 1) : s[i] = Slash /\ s[i + 1] = Slash}
    IN  IF starts = {} THEN s
        ELSE LET i == CHOOSE k \in starts : \A m \in starts : k <= m
                 nls == {k \in (i + 2)..Len(s) : s[k] = NL}
                 j == IF nls = {} THEN Len(s) + 1
                      ELSE CHOOSE k \in nls : \A m \in nls : k <= m
             IN  SubSeq(s, 1, i - 1) \o SubSeq(s, j, Len(s))

(***************************************************************************)
(* scripts/bin2incl.py                                                     *)
(***************************************************************************)
WARNING_bin2incl ==
    S(<<"/", "/", " ", "W", "A", "R", "N", "I", "N", "G", ":", " ", "t", "h",
        "i", "s", " ", "i", "s", " ", "a", " ", "f", "i", "l", "e", " ", "g",
        "e", "n", "e", "r", "a", "t", "e", "d", " ", "a", "u", "t", "o", "m",
        "a", "t", "i", "c", "a", "l", "l", "y", " ", "b", "y", " ", "t", "h",
        "e", " ", "b", "u", "i", "l", "d", " ", "p", "r", "o", "c", "e", "s",
        "s", ",", " ", "d", "o", " ", "n", "o", "t", " ", "m", "o", "d", "i",
        "f", "y">>) \o <<NL>>

LINE_WIDTH == 15
LINE_INDENT == [i \in 1..4 |-> Space]

\* The literals of the array declaration.
CharDecl == S(<<"c", "h", "a", "r", " ">>)
ArrayOpen == S(<<"[", "]", " ", "=", " ">>)
ArrayClose == <<RightBrace, Semicolon>>
HexPrefix == <<Zero, LowerX>>
EntrySep == <<Comma, Space>>
SizeDecl == S(<<"c", "o", "n", "s", "t", " ", "s", "i", "z", "e", "_", "t", " ">>)
LenEquals == S(<<"_", "l", "e", "n", " ", "=", " ">>)

\* f.read(1) at position pos: one byte, or the empty string at end of file.
read1(content, pos) ==
    IF pos < Len(content) THEN <<content[pos + 1]>> ELSE <<>>

\* Faulty variant of render_byte: the hex digits in
\* upper case.
render_byte_upper(ip, b) ==
    HexPrefix \o (IF ip = "python3"
                  THEN <<(IF b \div 16 < 10 THEN 48 ELSE 55) + (b \div 16),
                         (IF b % 16 < 10 THEN 48 ELSE 55) + (b % 16)>>
                  ELSE <<b>>)

\* The try/except of the loop: "0x" + byte.hex(), and where bytes has no
\* hex() (AttributeError: the str of Python 2), "0x" + str(byte), which is
\* the byte itself.
render_byte(ip, b) ==
    HexPrefix \o (IF ip = "python3" THEN hex(b) ELSE <<b>>)

\* Faulty variant of wraps: the row is broken after
\* its 15th entry is counted.
wraps_after(hw) == (hw + 1) % LINE_WIDTH = 0

\* The wrap condition of the loop.
wraps(hw) == hw % LINE_WIDTH = 0

\* What one iteration of the loop appends to include_builder.
loop_pieces(ip, hw, b) ==
    (IF wraps(hw) THEN <<<<NL>>, LINE_INDENT>> ELSE <<>>)
        \o <<render_byte(ip, b), EntrySep>>

\* Faulty variant of getsize: the encoded hex digits
\* are counted, not the bytes.
getsize_hex_digits(fsys, path) == 2 * Len(fsys[path])

\* os.path.getsize(path).
getsize(fsys, path) == Len(fsys[path])

\* "const size_t {}_len = {};".format(name, size)
len_decl(nm, size) ==
    SizeDecl \o nm \o LenEquals \o Decimal(size) \o <<Semicolon>>

\* os.path.basename(path).replace(".", "_")
identifier(path) == Replace(basename(path), Dot, <<Underscore>>)

\* argparse with the two positionals file and out: accepted iff exactly two
\* arguments are given (no argument of the model starts with "-").
parse_args_ok(args) == Len(args) = 2

\* Faulty variant of write_file: the file is opened
\* for appending.
write_file_append(fsys, path, text) == [fsys EXCEPT ![path] = @ \o text]

\* open(path, "w") followed by write(text): the file holds text alone.
write_file(fsys, path, text) == [fsys EXCEPT ![path] = text]

(***************************************************************************)
(* scripts/txt2incl.py                                                     *)
(***************************************************************************)
WARNING_txt2incl ==
    S(<<"/", "/", " ", "W", "A", "R", "N", "I", "N", "G", ":", " ", "t", "h",
        "i", "s", " ", "i", "s", " ", "a", " ", "f", "i", "l", "e", " ", "g",
        "e", "n", "e", "r", "a", "t", "e", "d", " ", "a", "u", "t", "o", "m",
        "a", "t", "i", "c", "a", "l", "l", "y", " ", "b", "y", " ", "t", "h",
        "e", " ", "b", "u", "i", "l", "d", " ", "p", "r", "o", "c", "e", "s",
        "s", ",", " ", "d", "o", " ", "n", "o", "t", " ", "m", "o", "d", "i",
        "f", "y">>)

\* The literals of the string declaration.
CharPtrDecl == S(<<"c", "o", "n", "s", "t", " ", "c", "h", "a", "r", "*", " ">>)
DeclEquals == S(<<" ", "=">>)
NewlineEscape == <<Backslash, LowerN>>

minimize_line(l) == strip(re_sub_comment(l))

\* Faulty variant of escape_line: the quotes are
\* escaped before the backslashes.
escape_line_quotes_first(l) ==
    Replace(Replace(l, Quote, <<Backslash, Quote>>),
            Backslash, <<Backslash, Backslash>>)

escape_line(l) ==
    Replace(Replace(l, Backslash, <<Backslash, Backslash>>),
            Quote, <<Backslash, Quote>>)

\* Faulty variant of to_c_string: the literal is
\* built for an empty line too.
to_c_string_unguarded(l) ==
    <<Quote>> \o escape_line(minimize_line(l)) \o NewlineEscape \o <<Quote>>

to_c_string(l) ==
    LET m == escape_line(minimize_line(l))
    IN  IF m # <<>> THEN <<Quote>> \o m \o NewlineEscape \o <<Quote>>
        ELSE <<>>

\* The next line of a text file read from position pos < Len(content): up
\* to and including the next newline, or to the end of the file.
next_line(content, pos) ==
    LET nls == {k \in (pos + 1)..Len(content) : content[k] = NL}
        e == IF nls = {} THEN Len(content)
             ELSE CHOOSE k \in nls : \A m \in nls : k <= m
    IN  SubSeq(content, pos + 1, e)

(***************************************************************************)
(* util/txt2incl.py                                                        *)
(***************************************************************************)
CharStarDecl == S(<<"c", "o", "n", "s", "t", " ", "c", "h", "a", "r", " ", "*">>)
WarningFrom ==
    S(<<"/", "/", " ", "W", "A", "R", "N", "I", "N", "G", ":", " ", "t", "h",
        "i", "s", " ", "i", "s", " ", "a", " ", "f", "i", "l", "e", " ", "g",
        "e", "n", "e", "r", "a", "t", "e", "d", " ", "a", "u", "t", "o", "m",
        "a", "t", "i", "c", "a", "l", "l", "y", " ", "b", "y", " ", "t", "h",
        "e", " ", "b", "u", "i", "l", "d", " ", "p", "r", "o", "c", "e", "s",
        "s", " ", "f", "r", "o", "m">>)
WarningQuote == S(<<"/", "/", " ", "\"">>)
WarningEnd ==
    S(<<"\"", ".", " ", "D", "o", " ", "n", "o", "t", " ", "m", "o", "d", "i",
        "f", "y", ".">>)

WARNING_util(path) ==
    WarningFrom \o <<NL>> \o WarningQuote \o path \o WarningEnd \o <<NL>>

stringify(l) ==
    LET l1 == IF l # <<>> /\ l[Len(l)] = NL THEN SubSeq(l, 1, Len(l) - 1)
              ELSE l
    IN  IF l1 = <<>> THEN l1
        ELSE <<Quote>>
                 \o Replace(Replace(l1, Backslash, <<Backslash, Backslash>>),
                            Quote, <<Backslash, Quote>>)
                 \o <<Backslash, LowerN, Quote>>

NoInputFile == S(<<"N", "o", " ", "i", "n", "p", "u", "t", " ", "f", "i", "l", "e">>)
NoOutputFile == S(<<"N", "o", " ", "o", "u", "t", "p", "u", "t", " ", "f", "i", "l", "e">>)

(***************************************************************************)
(* Inputs: paths, file contents, invocations.                              *)
(***************************************************************************)
MaxBinLen == 31      \* longest binary input (three rows of entries)
MaxTxtLen == 3       \* longest text input drawn from TxtAlphabet
MaxAliasLen == 0     \* longest input of a run whose output path is its input
MaxRuns == 2         \* runs of the tool on the same arguments

P_data == S(<<"d", "a", "t", "a", ".", "b", "i", "n">>)
P_shader == S(<<"r", "e", "s", "/", "s", "h", "a", "d", "e", "r", ".", "f", "r", "a",
        "g", ".", "t", "x", "t">>)
P_out == S(<<"o", "u", "t", ".", "h">>)
P_other == S(<<"o", "t", "h", "e", "r">>)
Paths == {P_data, P_shader, P_out, P_other}

Tools == {"bin2incl", "txt2incl", "util_txt2incl"}

\* util/txt2incl.py names python2 in its first line and is Python 2 source;
\* bin2incl.py names python, which is either; txt2incl.py behaves alike
\* under both on the inputs of the model.
Interps(t) ==
    IF t = "bin2incl" THEN {"python2", "python3"}
    ELSE IF t = "util_txt2incl" THEN {"python2"}
    ELSE {"python3"}

InPath(t) == IF t = "bin2incl" THEN P_data ELSE P_shader

\* Bytes s, s+1, ... (mod 256): the starts make every byte value occur.
Ramp(s, n) == [i \in 1..n |-> (s + i - 1) % 256]
RampStarts == {31 * k : k \in 0..8}
Example_bin == <<0, 1, 255>>
BinFiles ==
    {Ramp(s, n) : s \in RampStarts, n \in 0..MaxBinLen} \cup {Example_bin}

TxtAlphabet == {Ord("a"), Space, Slash, Quote, Backslash, NL}
Example_hello == S(<<"h", "e", "l", "l", "o", " ", "/", "/", " ", "c", "o", "m", "m", "e",
        "n", "t">>) \o <<NL>>
\* Four lines: "//" inside a quoted string, a blank line, a comment-only
\* line, and an indented last line with a backslash and no newline.
Example_mixed ==
    S(<<"u", " ", "=", " ", "\"", "a", "/", "/", "b", "\"", ";">>) \o <<NL>>
        \o <<Space, NL>>
        \o S(<<" ", " ", "/", "/", " ", "c">>) \o <<NL>>
        \o <<9>> \o S(<<"p", "\\", "q", " ">>)
\* Three lines without comment marker, quote or backslash.
Example_plain ==
    S(<<" ", " ", "a", "b", " ">>) \o <<NL, NL>> \o S(<<"c", " ", "d">>) \o <<NL>>
TxtFiles ==
    UNION {[1..k -> TxtAlphabet] : k \in 0..MaxTxtLen}
        \cup {Example_hello, Example_mixed, Example_plain}

Files(t) == IF t = "bin2incl" THEN BinFiles ELSE TxtFiles
ExampleFiles(t) ==
    IF t = "bin2incl" THEN {Example_bin} ELSE {Example_hello}

Stale == S(<<"s", "t", "a", "l", "e">>)

\* The invocations: no argument, the input alone, input and output, the
\* output path naming the input, and a surplus argument.
Argvs(t) ==
    {<<>>, <<InPath(t)>>, <<InPath(t), P_out>>, <<InPath(t), InPath(t)>>,
     <<InPath(t), P_out, P_other>>}

\* The contents of the input file tried with an invocation.
Pool(t, a) ==
    IF Len(a) # 2 THEN ExampleFiles(t)
    ELSE IF a[1] = a[2] THEN {c \in Files(t) : Len(c) <= MaxAliasLen}
    ELSE Files(t)

Scenarios ==
    {sc \in [tool : Tools, interp : {"python2", "python3"},
             in_exists : BOOLEAN, out_exists : BOOLEAN] :
        sc.interp \in Interps(sc.tool)}

Init ==
    \E sc \in Scenarios :
      \E a \in Argvs(sc.tool) :
        \E c \in Pool(sc.tool, a) :
            /\ sc.in_exists \/ (c = <<>> /\ Len(a) = 2 /\ a[1] # a[2])
            /\ sc.out_exists \/ (Len(a) = 2 /\ a[1] # a[2])
            /\ tool = sc.tool
            /\ interp = sc.interp
            /\ argv = a
            /\ fs = [p \in Paths |->
                        IF p = InPath(sc.tool) /\ sc.in_exists THEN c
                        ELSE IF p = P_out /\ sc.out_exists THEN Stale
                        ELSE IF p = P_other THEN Stale
                        ELSE <<>>]
            /\ exists = (IF sc.in_exists THEN {InPath(sc.tool)} ELSE {})
                            \cup (IF sc.out_exists THEN {P_out} ELSE {})
                            \cup {P_other}
            /\ pc = "start"
            /\ name = <<>>
            /\ include_builder = <<>>
            /\ header = <<>>
            /\ hex_written = 0
            /\ byte = <<>>
            /\ f = 0
            /\ line = <<>>
            /\ c_line = <<>>
            /\ exit_status = -1
            /\ stdout = <<>>
            /\ stderr = ""
            /\ run = 1
            /\ orig = fs
            /\ orig_exists = exists
            /\ opened = {}
            /\ history = <<>>

(***************************************************************************)
(* The process.                                                            *)
(***************************************************************************)
env == <<tool, interp, argv>>
files == <<fs, exists, history>>
started == <<run, orig, orig_exists>>
locals == <<name, include_builder, header, hex_written, byte, f, line,
            c_line>>
output == <<exit_status, stdout, stderr>>

\* The process ends with a diagnostic, having changed nothing else.
Die(status, out, err) ==
    /\ pc' = "exit"
    /\ exit_status' = status
    /\ stdout' = out
    /\ stderr' = err
    /\ UNCHANGED <<env, files, started, locals, opened>>

\* with open(args.out, "w") as out: out.write(text), and the process ends.
WriteOutput(path, text) ==
    /\ fs' = write_file(fs, path, text)
    /\ exists' = exists \cup {path}
    /\ opened' = opened \cup {path}
    /\ history' = Append(history, [input |-> orig[argv[1]],
                                   output |-> fs'[path]])
    /\ pc' = "done"
    /\ exit_status' = 0
    /\ UNCHANGED <<env, started, locals, stdout, stderr>>

\* ---- scripts/bin2incl.py ----

\* argparser.parse_args(), name, include_builder = [WARNING]
BinParseArgs ==
    /\ tool = "bin2incl" /\ pc = "start"
    /\ IF parse_args_ok(argv)
       THEN /\ name' = identifier(argv[1])
            /\ include_builder' = <<WARNING_bin2incl>>
            /\ pc' = "open"
            /\ UNCHANGED <<env, files, started, output, opened, header,
                           hex_written, byte, f, line, c_line>>
       ELSE Die(2, <<>>, "usage")

\* open(args.file, "rb"), the declaration's opening, the first read.
BinOpen ==
    /\ tool = "bin2incl" /\ pc = "open"
    /\ IF argv[1] \in exists
       THEN /\ opened' = opened \cup {argv[1]}
            /\ include_builder' = include_builder \o
                   <<CharDecl \o name \o ArrayOpen, <<LeftBrace>>>>
            /\ hex_written' = 0
            /\ byte' = read1(fs[argv[1]], 0)
            /\ f' = Len(byte')
            /\ pc' = "loop"
            /\ UNCHANGED <<env, files, started, output, name, header, line,
                           c_line>>
       ELSE Die(1, <<>>, "traceback")

\* One iteration of while byte.
BinLoop ==
    /\ tool = "bin2incl" /\ pc = "loop" /\ byte # <<>>
    /\ include_builder' =
           include_builder \o loop_pieces(interp, hex_written, byte[1])
    /\ byte' = read1(fs[argv[1]], f)
    /\ f' = f + Len(byte')
    /\ hex_written' = hex_written + 1
    /\ UNCHANGED <<env, files, started, output, opened, pc, name, header,
                   line, c_line>>

\* The loop ends: the closing lines and the length declaration.
BinEndLoop ==
    /\ tool = "bin2incl" /\ pc = "loop" /\ byte = <<>>
    /\ include_builder' = include_builder \o
           <<<<NL>>, ArrayClose, <<NL>>,
             len_decl(name, getsize(fs, argv[1]))>>
    /\ pc' = "write"
    /\ UNCHANGED <<env, files, started, output, opened, name, header,
                   hex_written, byte, f, line, c_line>>

\* out.write("".join(include_builder))
BinWrite ==
    /\ tool = "bin2incl" /\ pc = "write"
    /\ WriteOutput(argv[2], Join(include_builder))

\* ---- scripts/txt2incl.py ----

\* argparser.parse_args(), name, include_builder = [WARNING, declaration]
TxtParseArgs ==
    /\ tool = "txt2incl" /\ pc = "start"
    /\ IF parse_args_ok(argv)
       THEN /\ name' = identifier(argv[1])
            /\ include_builder' =
                   <<WARNING_txt2incl,
                     CharPtrDecl \o identifier(argv[1]) \o DeclEquals>>
            /\ pc' = "open"
            /\ UNCHANGED <<env, files, started, output, opened, header,
                           hex_written, byte, f, line, c_line>>
       ELSE Die(2, <<>>, "usage")

\* open(args.file, "r")
TxtOpen ==
    /\ tool = "txt2incl" /\ pc = "open"
    /\ IF argv[1] \in exists
       THEN /\ opened' = opened \cup {argv[1]}
            /\ f' = 0
            /\ pc' = "loop"
            /\ UNCHANGED <<env, files, started, output, name,
                           include_builder, header, hex_written, byte, line,
                           c_line>>
       ELSE Die(1, <<>>, "traceback")

\* One iteration of for line in f.
TxtLine ==
    /\ tool = "txt2incl" /\ pc = "loop" /\ f < Len(fs[argv[1]])
    /\ line' = next_line(fs[argv[1]], f)
    /\ f' = f + Len(line')
    /\ c_line' = to_c_string(line')
    /\ include_builder' =
           IF c_line' # <<>> THEN Append(include_builder, c_line')
           ELSE include_builder
    /\ UNCHANGED <<env, files, started, output, opened, pc, name, header,
                   hex_written, byte>>

\* The loop ends: include_builder.append(";")
TxtEndLoop ==
    /\ tool = "txt2incl" /\ pc = "loop" /\ f = Len(fs[argv[1]])
    /\ include_builder' = Append(include_builder, <<Semicolon>>)
    /\ pc' = "write"
    /\ UNCHANGED <<env, files, started, output, opened, name, header,
                   hex_written, byte, f, line, c_line>>

\* out.write("\n".join(include_builder))
TxtWrite ==
    /\ tool = "txt2incl" /\ pc = "write"
    /\ WriteOutput(argv[2], JoinWith(<<NL>>, include_builder))

\* ---- util/txt2incl.py ----

\* The argument-count check (sys.argv holds the script's name before the
\* arguments), WARNING, fileName, header.
UtilArgs ==
    /\ tool = "util_txt2incl" /\ pc = "start"
    /\ IF Len(argv) + 1 < 2 THEN Die(1, NoInputFile \o <<NL>>, "")
       ELSE IF Len(argv) + 1 < 3 THEN Die(1, NoOutputFile \o <<NL>>, "")
       ELSE /\ name' = identifier(argv[1])
            /\ header' = WARNING_util(argv[1])
                   \o CharStarDecl \o identifier(argv[1]) \o DeclEquals
                   \o <<NL>>
            /\ pc' = "open"
            /\ UNCHANGED <<env, files, started, output, opened,
                           include_builder, hex_written, byte, f, line,
                           c_line>>

\* open(sys.argv[1], "r")
UtilOpen ==
    /\ tool = "util_txt2incl" /\ pc = "open"
    /\ IF argv[1] \in exists
       THEN /\ opened' = opened \cup {argv[1]}
            /\ f' = 0
            /\ pc' = "loop"
            /\ UNCHANGED <<env, files, started, output, name,
                           include_builder, header, hex_written, byte, line,
                           c_line>>
       ELSE Die(1, <<>>, "traceback")

\* One iteration of for line in src.
UtilLine ==
    /\ tool = "util_txt2incl" /\ pc = "loop" /\ f < Len(fs[argv[1]])
    /\ line' = next_line(fs[argv[1]], f)
    /\ f' = f + Len(line')
    /\ c_line' = stringify(line')
    /\ header' = header \o (IF c_line' # <<>> THEN c_line' \o <<NL>>
                            ELSE <<>>)
    /\ UNCHANGED <<env, files, started, output, opened, pc, name,
                   include_builder, hex_written, byte>>

\* The loop ends: header += ';'
UtilEndLoop ==
    /\ tool = "util_txt2incl" /\ pc = "loop" /\ f = Len(fs[argv[1]])
    /\ header' = header \o <<Semicolon>>
    /\ pc' = "write"
    /\ UNCHANGED <<env, files, started, output, opened, name,
                   include_builder, hex_written, byte, f, line, c_line>>

\* out.write(header)
UtilWrite ==
    /\ tool = "util_txt2incl" /\ pc = "write"
    /\ WriteOutput(argv[2], header)

\* ---- the build runs the script again on the same arguments ----
Rerun ==
    /\ pc \in {"done", "exit"}
    /\ run < MaxRuns
    /\ run' = run + 1
    /\ orig' = fs
    /\ orig_exists' = exists
    /\ opened' = {}
    /\ pc' = "start"
    /\ name' = <<>>
    /\ include_builder' = <<>>
    /\ header' = <<>>
    /\ hex_written' = 0
    /\ byte' = <<>>
    /\ f' = 0
    /\ line' = <<>>
    /\ c_line' = <<>>
    /\ exit_status' = -1
    /\ stdout' = <<>>
    /\ stderr' = ""
    /\ UNCHANGED <<env, files>>

Next ==
    \/ BinParseArgs \/ BinOpen \/ BinLoop \/ BinEndLoop \/ BinWrite
    \/ TxtParseArgs \/ TxtOpen \/ TxtLine \/ TxtEndLoop \/ TxtWrite
    \/ UtilArgs \/ UtilOpen \/ UtilLine \/ UtilEndLoop \/ UtilWrite
    \/ Rerun

Spec == Init /\ [][Next]_vars

(***************************************************************************)
(* Reading the generated text back.                                        *)
(***************************************************************************)
IsDigit(c) == c \in 48..57
IsLowerHex(c) == c \in (48..57) \cup (97..102)
HexValue(c) == IF c <= 57 THEN c - 48 ELSE c - 87

RECURSIVE ParseDecimal(_)
ParseDecimal(s) ==
    IF s = <<>> THEN 0
    ELSE 10 * ParseDecimal(SubSeq(s, 1, Len(s) - 1)) + (s[Len(s)] - 48)

EndsWith(text, suffix) ==
    /\ Len(suffix) <= Len(text)
    /\ SubSeq(text, Len(text) - Len(suffix) + 1, Len(text)) = suffix

\* The digits that end at position e of text, as far left as they go.
DigitsBefore(text, e) ==
    LET k == CHOOSE i \in 1..(e + 1) :
                 /\ \A j \in i..e : IsDigit(text[j])
                 /\ i = 1 \/ ~IsDigit(text[i - 1])
    IN  SubSeq(text, k, e)

\* A piece of include_builder that is an entry: it starts with 0x.
IsEntry(p) == Len(p) >= 2 /\ p[1] = Zero /\ p[2] = LowerX
Separator == <<Comma, Space>>

EntryCount(ib) == Cardinality({i \in DOMAIN ib : IsEntry(ib[i])})

\* The entries of an array body, read in order as hexadecimal byte values;
\* -1 stands for text that is no entry of two lowercase hex digits.
RECURSIVE ParseEntries(_, _)
ParseEntries(body, pos) ==
    IF pos > Len(body) THEN <<>>
    ELSE IF body[pos] \in {NL, Space} THEN ParseEntries(body, pos + 1)
    ELSE IF /\ pos + 5 <= Len(body)
            /\ body[pos] = Zero /\ body[pos + 1] = LowerX
            /\ IsLowerHex(body[pos + 2]) /\ IsLowerHex(body[pos + 3])
            /\ body[pos + 4] = Comma /\ body[pos + 5] = Space
    THEN <<16 * HexValue(body[pos + 2]) + HexValue(body[pos + 3])>>
             \o ParseEntries(body, pos + 6)
    ELSE <<-1>>

\* The bytes of the generated array: what lies between the first { and
\* the last } of the text.
DecodeArray(text) ==
    LET open == CHOOSE i \in DOMAIN text :
                    text[i] = LeftBrace
                    /\ \A j \in 1..(i - 1) : text[j] # LeftBrace
        close == CHOOSE i \in DOMAIN text :
                     text[i] = RightBrace
                     /\ \A j \in (i + 1)..Len(text) : text[j] # RightBrace
    IN  ParseEntries(SubSeq(text, open + 1, close - 1), 1)

BinDone == tool = "bin2incl" /\ pc = "done"
LenText == S(<<"_", "l", "e", "n", " ", "=", " ">>)
SizeT == S(<<"c", "o", "n", "s", "t", " ", "s", "i", "z", "e", "_", "t", " ">>)
UnsignedInt ==
    S(<<"c", "o", "n", "s", "t", " ", "u", "n", "s", "i", "g", "n", "e", "d",
        " ", "i", "n", "t", " ">>)
ArrayHead == S(<<"c", "h", "a", "r", " ">>)
ArrayEquals == S(<<"[", "]", " ", "=", " ", "{">>)

(***************************************************************************)
(* C1.  In array mode, for every input file, the empty one included, the   *)
(* integer of the _len declaration equals the byte size of the input, the  *)
(* number of entries the loop emitted and hex_written at the loop's exit.  *)
(***************************************************************************)
Thm_C1_LengthIsSize ==
    BinDone =>
        LET text == fs[argv[2]]
            size == Len(orig[argv[1]])
            digits == DigitsBefore(text, Len(text) - 1)
        IN  /\ text[Len(text)] = Semicolon
            /\ digits # <<>>
            /\ ParseDecimal(digits) = size
            /\ EndsWith(text, name \o LenText \o digits \o <<Semicolon>>)
            /\ hex_written = size
            /\ EntryCount(include_builder) = size

\* A run on a 31-byte input (three rows) has written its output.
Wit_C1_ThreeRows ==
    /\ BinDone
    /\ Len(orig[argv[1]]) = 31
    /\ hex_written = 31
    /\ argv[1] # argv[2]

(***************************************************************************)
(* C2.  Round trip in array mode: reading the emitted entries between {    *)
(* and } in order as hexadecimal byte values yields the input, one entry   *)
(* of two lowercase hex digits per byte.                                   *)
(***************************************************************************)
Cex_C2_RoundTrip ==
    BinDone => DecodeArray(fs[argv[2]]) = orig[argv[1]]

\* The round trip where bytes.hex() exists.
Lemma_C2_RoundTripWithHex ==
    (BinDone /\ interp = "python3") =>
        DecodeArray(fs[argv[2]]) = orig[argv[1]]

(***************************************************************************)
(* C3.  In array mode a newline and the four-space indentation are         *)
(* emitted immediately before the entry of 0-based index i exactly when i  *)
(* is a multiple of 15: at every point of the loop the entries form rows,  *)
(* each begun by newline and indentation, each of at most 15 entries and   *)
(* all but the last of exactly 15; an empty input has no row.              *)
(***************************************************************************)
\* Where the entries of include_builder end.
BodyEnd == IF pc = "loop" THEN Len(include_builder)
           ELSE Len(include_builder) - 4

RowStarts == {i \in 4..BodyEnd : include_builder[i] = LINE_INDENT}

\* The last piece of the row that starts with the indentation at i, rs
\* being the row starts and e the end of the entries.
RowEnd(rs, e, i) ==
    LET later == {j \in rs : j > i}
    IN  IF later = {} THEN e
        ELSE (CHOOSE j \in later : \A m \in later : j <= m) - 2

Thm_C3_Rows ==
    (tool = "bin2incl" /\ pc \in {"loop", "write", "done"}) =>
        LET ib == include_builder
            e == BodyEnd
            rs == RowStarts
        IN  /\ \A k \in 4..e :
                  \/ ib[k] = <<NL>> /\ k < e /\ ib[k + 1] = LINE_INDENT
                  \/ ib[k] = LINE_INDENT /\ ib[k - 1] = <<NL>>
                         /\ k < e /\ IsEntry(ib[k + 1])
                  \/ IsEntry(ib[k]) /\ ib[k - 1] \in {LINE_INDENT, Separator}
                         /\ k < e /\ ib[k + 1] = Separator
                  \/ ib[k] = Separator /\ IsEntry(ib[k - 1])
            /\ \A i \in rs :
                  LET n == RowEnd(rs, e, i) - i
                  IN  /\ n % 2 = 0
                      /\ n \div 2 \in 1..15
                      /\ i + n # e => n \div 2 = 15
            /\ (hex_written = 0) <=> (rs = {})
            /\ hex_written > 0 => 5 \in rs
            /\ e = 3 + 2 * hex_written + 2 * Cardinality(rs)

\* The loop has emitted 16 entries: the second row has just begun.
Wit_C3_SecondRow ==
    /\ tool = "bin2incl" /\ pc = "loop"
    /\ hex_written = 16
    /\ Cardinality(RowStarts) = 2

(***************************************************************************)
(* C4.  The generated text of array mode.  As amended: the warning line,   *)
(* char <identifier>[] = {, the wrapped entries each followed by ", ", a   *)
(* newline, };, a newline and const size_t <identifier>_len = <size>;      *)
(* where an entry is 0x and the two lowercase hex digits of the byte, or,  *)
(* where bytes has no hex(), 0x and the byte itself.                       *)
(***************************************************************************)
HexChars ==
    S(<<"0", "1", "2", "3", "4", "5", "6", "7", "8", "9", "a", "b", "c", "d",
        "e", "f">>)

EntryText(ip, b) ==
    <<Zero, LowerX>>
        \o (IF ip = "python3"
            THEN <<HexChars[(b \div 16) + 1], HexChars[(b % 16) + 1]>>
            ELSE <<b>>)
        \o <<Comma, Space>>

\* The entries of content[lo..hi], a row break before every 15th.
RECURSIVE EntriesText(_, _, _, _)
EntriesText(ip, content, lo, hi) ==
    IF lo > hi THEN <<>>
    ELSE IF lo = hi
    THEN (IF (lo - 1) % 15 = 0 THEN <<NL, Space, Space, Space, Space>>
          ELSE <<>>) \o EntryText(ip, content[lo])
    ELSE LET mid == (lo + hi) \div 2
         IN  EntriesText(ip, content, lo, mid)
                 \o EntriesText(ip, content, mid + 1, hi)

ArrayText(ip, id, content, lentype) ==
    WARNING_bin2incl
        \o ArrayHead \o id \o ArrayEquals
        \o EntriesText(ip, content, 1, Len(content))
        \o <<NL, RightBrace, Semicolon, NL>>
        \o lentype \o id \o LenText
        \o Decimal(Len(content)) \o <<Semicolon>>

DataBin == S(<<"d", "a", "t", "a", "_", "b", "i", "n">>)

Example_C4_head ==
    S(<<"c", "h", "a", "r", " ", "d", "a", "t", "a", "_", "b", "i", "n", "[",
        "]", " ", "=", " ", "{">>)
        \o <<NL>>
Example_C4_tail == <<NL>> \o S(<<"}", ";">>) \o <<NL>>

\* The example's text with the entries of bytes.hex().
Example_C4_size_t ==
    WARNING_bin2incl \o Example_C4_head
        \o S(<<" ", " ", " ", " ", "0", "x", "0", "0", ",", " ", "0", "x", "0", "1",
            ",", " ", "0", "x", "f", "f", ",", " ">>)
        \o Example_C4_tail
        \o S(<<"c", "o", "n", "s", "t", " ", "s", "i", "z", "e", "_", "t", " ", "d",
            "a", "t", "a", "_", "b", "i", "n", "_", "l", "e", "n", " ", "=", " ",
            "3", ";">>)

\* The example's text as the claim has it.
Example_C4_unsigned ==
    WARNING_bin2incl \o Example_C4_head
        \o S(<<" ", " ", " ", " ", "0", "x", "0", "0", ",", " ", "0", "x", "0", "1",
            ",", " ", "0", "x", "f", "f", ",", " ">>)
        \o Example_C4_tail
        \o S(<<"c", "o", "n", "s", "t", " ", "u", "n", "s", "i", "g", "n", "e", "d",
            " ", "i", "n", "t", " ", "d", "a", "t", "a", "_", "b", "i", "n", "_",
            "l", "e", "n", " ", "=", " ", "3", ";">>)

\* The example's text where bytes has no hex(): the bytes themselves.
Example_C4_raw ==
    WARNING_bin2incl \o Example_C4_head
        \o S(<<" ", " ", " ", " ", "0", "x">>) \o <<0>>
        \o S(<<",", " ", "0", "x">>) \o <<1>>
        \o S(<<",", " ", "0", "x">>) \o <<255>> \o S(<<",", " ">>)
        \o Example_C4_tail
        \o S(<<"c", "o", "n", "s", "t", " ", "s", "i", "z", "e", "_", "t", " ", "d",
            "a", "t", "a", "_", "b", "i", "n", "_", "l", "e", "n", " ", "=", " ",
            "3", ";">>)

Thm_C4_ArrayText ==
    BinDone =>
        /\ fs[argv[2]] =
               ArrayText(interp, identifier(argv[1]), orig[argv[1]], SizeT)
        /\ (orig[argv[1]] = Example_bin /\ name = DataBin) =>
               fs[argv[2]] = (IF interp = "python3" THEN Example_C4_size_t
                              ELSE Example_C4_raw)

\* The original statement: the length is declared const unsigned int.
Cex_C4_UnsignedInt ==
    BinDone =>
        /\ fs[argv[2]] =
               ArrayText(interp, identifier(argv[1]), orig[argv[1]],
                         UnsignedInt)
        /\ (orig[argv[1]] = Example_bin /\ name = DataBin
                /\ interp = "python3") =>
               fs[argv[2]] = Example_C4_unsigned

\* The example: bytes 0x00 0x01 0xFF of data.bin written with bytes.hex().
Wit_C4_Example ==
    /\ BinDone
    /\ interp = "python3"
    /\ orig[argv[1]] = Example_bin
    /\ name = DataBin
    /\ argv[2] = P_out

(***************************************************************************)
(* String mode as the claims state it.                                     *)
(***************************************************************************)
Blank(c) == c \in {9, 10, 11, 12, 13, 32}

CommentAt(l, i) == i < Len(l) /\ l[i] = Slash /\ l[i + 1] = Slash

\* The line up to its first "//", whatever the "//" lies in.
BeforeComment(l) ==
    LET k == CHOOSE n \in 0..Len(l) :
                 /\ n = Len(l) \/ CommentAt(l, n + 1)
                 /\ \A j \in 1..n : ~CommentAt(l, j)
    IN  SubSeq(l, 1, k)

RECURSIVE TrimLeft(_)
TrimLeft(s) == IF s # <<>> /\ Blank(Head(s)) THEN TrimLeft(Tail(s)) ELSE s

RECURSIVE TrimRight(_)
TrimRight(s) ==
    IF s # <<>> /\ Blank(s[Len(s)]) THEN TrimRight(SubSeq(s, 1, Len(s) - 1))
    ELSE s

Trim(s) == TrimRight(TrimLeft(s))

\* Every backslash doubled, every double quote preceded by a backslash.
RECURSIVE Escaped(_)
Escaped(s) ==
    IF s = <<>> THEN <<>>
    ELSE (IF Head(s) = Backslash THEN <<Backslash, Backslash>>
          ELSE IF Head(s) = Quote THEN <<Backslash, Quote>>
          ELSE <<Head(s)>>) \o Escaped(Tail(s))

\* A quote, the content, backslash-n, a quote; nothing for no content.
Literal(content) ==
    IF content = <<>> THEN <<>>
    ELSE <<Quote>> \o content \o <<Backslash, LowerN, Quote>>

WithoutNewline(l) ==
    IF l # <<>> /\ l[Len(l)] = NL THEN SubSeq(l, 1, Len(l) - 1) ELSE l

\* The literal of a line: comment cut, whitespace stripped, then escaped.
StrippedLiteral(l) == Literal(Escaped(Trim(BeforeComment(l))))

\* The literal of a line that is only relieved of its newline and escaped.
UnstrippedLiteral(l) == Literal(Escaped(WithoutNewline(l)))

\* The lines of a text in order, each with its newline.
RECURSIVE LinesOf(_)
LinesOf(t) ==
    IF t = <<>> THEN <<>>
    ELSE LET nls == {k \in DOMAIN t : t[k] = NL}
             e == IF nls = {} THEN Len(t)
                  ELSE CHOOSE k \in nls : \A m \in nls : k <= m
         IN  <<SubSeq(t, 1, e)>> \o LinesOf(SubSeq(t, e + 1, Len(t)))

IsLiteralLine(l) == l # <<>> /\ l[1] = Quote
NonEmpty(s) == s # <<>>
HasContent(l) == Trim(BeforeComment(l)) # <<>>
HasText(l) == WithoutNewline(l) # <<>>

\* The literal lines of a generated text, in order.
LiteralLines(text) == SelectSeq(LinesOf(text), IsLiteralLine)

\* A literal line decoded: quotes and the final backslash-n removed.
Inner(l) == LET w == WithoutNewline(l) IN SubSeq(w, 2, Len(w) - 3)

DecodedLiterals(text) ==
    LET ls == LiteralLines(text) IN [k \in DOMAIN ls |-> Inner(ls[k])]

TrimmedLines(t) ==
    LET ls == LinesOf(t)
    IN  SelectSeq([k \in DOMAIN ls |-> Trim(ls[k])], NonEmpty)

BareLines(t) ==
    LET ls == LinesOf(t)
    IN  SelectSeq([k \in DOMAIN ls |-> WithoutNewline(ls[k])], NonEmpty)

\* No comment marker, double quote or backslash in the text.
NoSpecials(t) ==
    \A i \in DOMAIN t :
        t[i] # Quote /\ t[i] # Backslash /\ ~CommentAt(t, i)

StringMode == tool \in {"txt2incl", "util_txt2incl"}
LineProcessed == pc \in {"loop", "write", "done"} /\ line # <<>>
HelloLiteral == S(<<"\"", "h", "e", "l", "l", "o", "\\", "n", "\"">>)

(***************************************************************************)
(* C5.  The literal of a line in string mode.  As amended: in              *)
(* scripts/txt2incl.py the line is cut at its first "//" (wherever that    *)
(* lies), stripped of leading and trailing whitespace, then escaped        *)
(* (backslashes doubled, then quotes escaped), and a non-empty result is   *)
(* emitted between quotes with a final backslash-n; util/txt2incl.py cuts  *)
(* no comment and strips no whitespace: it removes the line's newline and  *)
(* escapes.                                                                *)
(***************************************************************************)
Thm_C5_LineLiteral ==
    /\ (tool = "txt2incl" /\ LineProcessed) =>
           /\ c_line = StrippedLiteral(line)
           /\ line = Example_hello => c_line = HelloLiteral
           /\ (pc = "loop" /\ c_line # <<>>) =>
                  include_builder[Len(include_builder)] = c_line
    /\ (tool = "util_txt2incl" /\ LineProcessed) =>
           /\ c_line = UnstrippedLiteral(line)
           /\ (pc = "loop" /\ c_line # <<>>) =>
                  EndsWith(header, c_line \o <<NL>>)

\* The original statement: every string-mode script cuts and strips.
Cex_C5_AllStrip ==
    (StringMode /\ LineProcessed) => c_line = StrippedLiteral(line)

\* scripts/txt2incl.py has turned the example line into its literal.
Wit_C5_Hello ==
    /\ tool = "txt2incl" /\ pc = "loop"
    /\ line = Example_hello
    /\ c_line = HelloLiteral

(***************************************************************************)
(* C6.  Elision in string mode.  As amended: scripts/txt2incl.py emits     *)
(* one literal per input line whose content before the first "//" is not   *)
(* all whitespace, and none for the other lines; util/txt2incl.py emits    *)
(* one literal per input line that is not empty once its newline is        *)
(* removed, so it keeps whitespace-only and comment-only lines.            *)
(***************************************************************************)
Thm_C6_Elision ==
    /\ (tool = "txt2incl" /\ pc = "done") =>
           LET n == Len(SelectSeq(LinesOf(orig[argv[1]]), HasContent))
           IN  /\ Len(LiteralLines(fs[argv[2]])) = n
               /\ Len(include_builder) = n + 3
    /\ (tool = "util_txt2incl" /\ pc = "done") =>
           Len(LiteralLines(fs[argv[2]]))
               = Len(SelectSeq(LinesOf(orig[argv[1]]), HasText))

\* The original statement: every string-mode script elides those lines.
Cex_C6_AllElide ==
    (StringMode /\ pc = "done") =>
        Len(LiteralLines(fs[argv[2]]))
            = Len(SelectSeq(LinesOf(orig[argv[1]]), HasContent))

\* scripts/txt2incl.py has written two literals for the four lines of
\* Example_mixed, of which one is blank and one a comment.
Wit_C6_Mixed ==
    /\ tool = "txt2incl" /\ pc = "done"
    /\ orig[argv[1]] = Example_mixed
    /\ Len(include_builder) = 5

(***************************************************************************)
(* C7.  Round trip in string mode, for a text without "//", double quote   *)
(* or backslash.  As amended: the decoded literals of scripts/txt2incl.py  *)
(* are the whitespace-stripped non-empty lines of the input in order;      *)
(* those of util/txt2incl.py are the non-empty lines of the input in       *)
(* order with their leading and trailing whitespace kept.                  *)
(***************************************************************************)
Thm_C7_RoundTrip ==
    /\ (tool = "txt2incl" /\ pc = "done" /\ NoSpecials(orig[argv[1]])) =>
           DecodedLiterals(fs[argv[2]]) = TrimmedLines(orig[argv[1]])
    /\ (tool = "util_txt2incl" /\ pc = "done"
            /\ NoSpecials(orig[argv[1]])) =>
           DecodedLiterals(fs[argv[2]]) = BareLines(orig[argv[1]])

\* The original statement: every string-mode script returns stripped lines.
Cex_C7_AllStripped ==
    (StringMode /\ pc = "done" /\ NoSpecials(orig[argv[1]])) =>
        DecodedLiterals(fs[argv[2]]) = TrimmedLines(orig[argv[1]])

\* scripts/txt2incl.py has written Example_plain: "  ab ", a blank line
\* and "c d" come back as "ab" and "c d".
Wit_C7_Plain ==
    /\ tool = "txt2incl" /\ pc = "done"
    /\ orig[argv[1]] = Example_plain
    /\ DecodedLiterals(fs[argv[2]]) = <<S(<<"a", "b">>), S(<<"c", " ", "d">>)>>

(***************************************************************************)
(* C8.  The output is overwritten, never appended to: runs on the same     *)
(* unchanged input leave byte-identical output files, whatever the output  *)
(* path held before each run.                                              *)
(***************************************************************************)
Thm_C8_SameOutput ==
    \A i, j \in DOMAIN history :
        history[i].input = history[j].input =>
            history[i].output = history[j].output

\* The second run on an unchanged non-empty input has written its output
\* over that of the first.
Wit_C8_SecondRun ==
    /\ pc = "done" /\ run = 2
    /\ Len(history) = 2
    /\ history[1].input = history[2].input
    /\ history[1].input # <<>>
    /\ orig[argv[2]] = history[1].output

(***************************************************************************)
(* C9.  Invoked with a wrong argument count, the tool reports the problem  *)
(* (util/txt2incl.py: No input file, No output file; the other scripts:    *)
(* the usage error of argparse), exits with a non-zero status and touches  *)
(* no file.                                                                *)
(***************************************************************************)
Terminated == pc \in {"done", "exit"}

Reported ==
    IF tool = "util_txt2incl"
    THEN IF Len(argv) = 0 THEN stdout = NoInputFile \o <<NL>>
         ELSE IF Len(argv) = 1 THEN stdout = NoOutputFile \o <<NL>>
         ELSE stdout # <<>> \/ stderr # ""
    ELSE stderr = "usage"

Untouched == fs = orig /\ exists = orig_exists /\ opened = {}

Cex_C9_WrongCount ==
    (Len(argv) # 2 /\ Terminated) =>
        exit_status # 0 /\ Reported /\ Untouched

\* What holds: too few arguments are reported by every script, and the
\* scripts that use argparse report a surplus argument as well.
Lemma_C9_TooFew ==
    ((Len(argv) < 2 \/ (Len(argv) # 2 /\ tool # "util_txt2incl"))
         /\ Terminated) =>
        exit_status # 0 /\ Reported /\ Untouched

(***************************************************************************)
(* C10.  A run writes only the file at the output path and leaves the      *)
(* input file as it was, also when both paths name the same file.          *)
(***************************************************************************)
Cex_C10_InputKept ==
    (Terminated /\ Len(argv) >= 2) =>
        /\ fs[argv[1]] = orig[argv[1]]
        /\ \A p \in Paths \ {argv[2]} :
               fs[p] = orig[p] /\ (p \in exists <=> p \in orig_exists)

\* What holds: with distinct paths only the output file changes.
Lemma_C10_DistinctPaths ==
    (Len(argv) >= 2 /\ argv[1] # argv[2]) =>
        /\ fs[argv[1]] = orig[argv[1]]
        /\ \A p \in Paths \ {argv[2]} :
               fs[p] = orig[p] /\ (p \in exists <=> p \in orig_exists)
        /\ opened \subseteq {argv[1], argv[2]}

====
